---- MODULE Spec2Model ----
(***************************************************************************)
(* Model of the PDF-OCR-to-DOCX batch pipeline of src/main.py:             *)
(* pdf_to_images, perform_ocr_easyocr, create_docx,                        *)
(* process_single_pdf_with_state and the processing loop of main.          *)
(*                                                                         *)
(* Python strings are sequences of one-character strings, so that strip,   *)
(* split, startswith, slicing and formatting are computed as Python        *)
(* computes them.  A page image is modelled by what the OCR reader does    *)
(* with it: it raises, or it returns a list of detections.                 *)
(***************************************************************************)
EXTENDS Integers, Sequences, FiniteSets, TLC

VARIABLES
    processed_files,  \* st.session_state.processed_files: insertion-ordered dict
    uploaded_files,   \* the list returned by st.file_uploader for this run
    lang,             \* the language picked in the sidebar for this run
    pc,               \* position of the script run
    file_idx,         \* i of "for i, uploaded_file in enumerate(uploaded_files)"
    success_count,    \* main: success_count
    total_files,      \* main: total_files
    reported,         \* the per-file st.success / st.error lines, in order
    images,           \* process_single_pdf_with_state: images
    page_idx,         \* perform_ocr_easyocr: i of enumerate(images)
    extracted_text,   \* perform_ocr_easyocr: extracted_text
    progress_bar,     \* the values given to st.progress / progress_bar.progress
    doc,              \* process_single_pdf_with_state: doc
    widget_keys,      \* element keys registered by Streamlit in this script run
    put_log,          \* indices of the files of this run that wrote the store
    store_at_start,   \* processed_files when the Start button was clicked
    batches,          \* number of processing runs started in this session
    zip_download      \* data of the download_all_zip button of this script run

vars == <<processed_files, uploaded_files, lang, pc, file_idx, success_count,
          total_files, reported, images, page_idx, extracted_text,
          progress_bar, doc, widget_keys, put_log, store_at_start, batches,
          zip_download>>

(***************************************************************************)
(* Bounds of the model.                                                    *)
(***************************************************************************)
MaxFiles == 3
MaxBatches == 2
MaxPages == 3

(***************************************************************************)
(* Program constants.                                                      *)
(***************************************************************************)
PreviewKeyLen == 100

\* Python's None, and a value that is not None.
None == [is_none |-> TRUE]

Some(v) == [is_none |-> FALSE, value |-> v]

(***************************************************************************)
(* Python string primitives.                                               *)
(***************************************************************************)
Whitespace == {" ", "\n", "\t", "\r"}

\* A character the XML layer of python-docx rejects (a control character).
CTRL == "\\x01"

Take(s, n) == SubSeq(s, 1, IF Len(s) < n THEN Len(s) ELSE n)

Drop(s, n) == SubSeq(s, n + 1, Len(s))

StartsWith(s, prefix) ==
    /\ Len(prefix) <= Len(s)
    /\ \A k \in 1..Len(prefix) : s[k] = prefix[k]

\* str.strip(): drop leading and trailing whitespace.
Strip(s) ==
    IF \A k \in 1..Len(s) : s[k] \in Whitespace THEN <<>>
    ELSE LET lo == CHOOSE k \in 1..Len(s) :
                       /\ s[k] \notin Whitespace
                       /\ \A j \in 1..(k - 1) : s[j] \in Whitespace
             hi == CHOOSE k \in 1..Len(s) :
                       /\ s[k] \notin Whitespace
                       /\ \A j \in (k + 1)..Len(s) : s[j] \in Whitespace
         IN  SubSeq(s, lo, hi)

BlankLineAt(s, k) == s[k] = "\n" /\ s[k + 1] = "\n"

\* Index of the first "\n\n" of s, or 0.
FirstBlankLine(s) ==
    IF \A k \in 1..(Len(s) - 1) : ~BlankLineAt(s, k) THEN 0
    ELSE CHOOSE k \in 1..(Len(s) - 1) :
             /\ BlankLineAt(s, k)
             /\ \A j \in 1..(k - 1) : ~BlankLineAt(s, j)

\* text.split('\n\n'): non-overlapping separators, scanned left to right.
RECURSIVE SplitBlankLines(_)
SplitBlankLines(s) ==
    LET k == FirstBlankLine(s)
    IN  IF k = 0 THEN <<s>>
        ELSE <<SubSeq(s, 1, k - 1)>> \o SplitBlankLines(Drop(s, k + 1))

DigitChar == <<"0", "1", "2", "3", "4", "5", "6", "7", "8", "9">>

\* str(n) for n >= 0.
RECURSIVE IntToStr(_)
IntToStr(n) ==
    IF n < 10 THEN <<DigitChar[n + 1]>>
    ELSE IntToStr(n \div 10) \o <<DigitChar[(n % 10) + 1]>>

\* Path(name).stem: the name without its last suffix.
Stem(name) ==
    LET Dots == {k \in 2..(Len(name) - 1) : name[k] = "."}
    IN  IF Dots = {} THEN name
        ELSE SubSeq(name, 1, (CHOOSE k \in Dots : \A j \in Dots : j <= k) - 1)

(***************************************************************************)
(* TRANSLATIONS and get_text, for the one key the pipeline's data uses.    *)
(***************************************************************************)
Langs == {"en", "de"}

page_separator(l) ==
    IF l = "de" THEN <<"S", "e", "i", "t", "e">> ELSE <<"P", "a", "g", "e">>

\* f"\n--- {get_text('page_separator', lang)} {i + 1} ---\n"
PageSeparatorLine(l, i) ==
    <<"\n", "-", "-", "-", " ">> \o page_separator(l) \o <<" ">>
        \o IntToStr(i + 1) \o <<" ", "-", "-", "-", "\n">>

\* f'--- {get_text("page_separator", lang)}'
SeparatorPrefix(l) == <<"-", "-", "-", " ">> \o page_separator(l)

(***************************************************************************)
(* perform_ocr_easyocr: the text of one page.                              *)
(***************************************************************************)
\* page_text = ""; for detection in results: page_text += detection[1] + " "
RECURSIVE JoinDetections(_)
JoinDetections(results) ==
    IF results = <<>> THEN <<>>
    ELSE Head(results)[2] \o <<" ">> \o JoinDetections(Tail(results))

\* What one successful iteration appends to extracted_text.
PageBlock(l, i, results) ==
    PageSeparatorLine(l, i) \o Strip(JoinDetections(results)) \o <<"\n", "\n">>

(***************************************************************************)
(* create_docx: a document is its list of blocks (style, text).            *)
(***************************************************************************)
XmlCompatible(s) == \A k \in 1..Len(s) : s[k] # CTRL

TitleText(filename) ==
    <<"O", "C", "R", " ", "R", "e", "s", "u", "l", "t", ":", " ">> \o filename

\* The block one element of text.split('\n\n') adds, or <<>> for none.
ParagraphBlocks(paragraph, l) ==
    IF Strip(paragraph) = <<>> THEN <<>>
    ELSE IF StartsWith(Strip(paragraph), SeparatorPrefix(l))
         THEN <<[style |-> "Heading 1", text |-> Strip(paragraph)]>>
         ELSE <<[style |-> "Normal", text |-> Strip(paragraph)]>>

RECURSIVE BodyBlocks(_, _)
BodyBlocks(paragraphs, l) ==
    IF paragraphs = <<>> THEN <<>>
    ELSE ParagraphBlocks(Head(paragraphs), l) \o BodyBlocks(Tail(paragraphs), l)

\* Returns the document, or None when python-docx raises: it does on text
\* that is not XML compatible.
create_docx(text, filename, l) ==
    LET blocks == <<[style |-> "Title", text |-> TitleText(filename)]>>
                      \o BodyBlocks(SplitBlankLines(text), l)
    IN  IF \A k \in 1..Len(blocks) : XmlCompatible(blocks[k].text)
        THEN Some(blocks)
        ELSE None

\* doc.save(doc_io); doc_io.getvalue(): the container around the blocks.
SaveDocx(d) == [container |-> "docx", body |-> d]

(***************************************************************************)
(* st.session_state.processed_files: a Python dict, which keeps its keys   *)
(* in insertion order.  It is a sequence of (key, value) pairs.            *)
(***************************************************************************)
DictKeys(d) == {d[k].key : k \in 1..Len(d)}

DictGet(d, key) == (CHOOSE k \in 1..Len(d) : d[k].key = key)

\* Every write adds a pair, also under a key that is present.
DictSet_AlwaysAppends(d, key, value) ==
    Append(d, [key |-> key, value |-> value])

\* d[key] = value: an existing key keeps its place and gets the new value.
DictSet(d, key, value) ==
    IF key \in DictKeys(d)
    THEN [d EXCEPT ![DictGet(d, key)] = [key |-> key, value |-> value]]
    ELSE Append(d, [key |-> key, value |-> value])

\* f"{original_name}_OCR.docx" with original_name = Path(uploaded_file.name).stem
DocxFilename(name) ==
    Stem(name) \o <<"_", "O", "C", "R", ".", "d", "o", "c", "x">>

\* key=f"preview_{uploaded_file.name}_{hash(extracted_text[:100])}": equal
\* strings hash alike, so the key is the name and the sliced text.
PreviewKey(name, text) == <<name, Take(text, PreviewKeyLen)>>

(***************************************************************************)
(* create_zip_download and the download section of main: the archive is a  *)
(* list of members (name, compressed data), in the order they are written. *)
(***************************************************************************)
NUL == "\\x00"

\* zipfile.ZipInfo(filename), made by writestr: the member's name ends before
\* the first null byte of filename.
ZipInfoName(filename) ==
    LET Nuls == {k \in 1..Len(filename) : filename[k] = NUL}
    IN  IF Nuls = {} THEN filename
        ELSE SubSeq(filename, 1, (CHOOSE k \in Nuls : \A j \in Nuls : k <= j) - 1)

\* zipfile.ZIP_DEFLATED: what the member holds in place of the bytes.
Deflate(bytes) == [compress_type |-> "ZIP_DEFLATED", deflated |-> bytes]

\* Line 485: {filename: data['doc_bytes'] for filename, data in ....items()}
FilesForZip(store) ==
    [k \in 1..Len(store) |->
        [key |-> store[k].key, value |-> store[k].value.doc_bytes]]

\* The item written last is left out of the archive.
create_zip_download_AllButLast(files) ==
    [file_name |-> "ocr_results.zip",
     count |-> Len(files),
     members |-> [k \in 1..(Len(files) - 1) |->
                    [filename |-> ZipInfoName(files[k].key),
                     data |-> Deflate(files[k].value)]]]

\* Lines 311-334: one writestr for each item, in the dict's order; the
\* button's label counts the files, its data is the archive.
create_zip_download(files) ==
    [file_name |-> "ocr_results.zip",
     count |-> Len(files),
     members |-> [k \in 1..Len(files) |->
                    [filename |-> ZipInfoName(files[k].key),
                     data |-> Deflate(files[k].value)]]]

\* Lines 479-487: the archive's button, made when the store holds more than
\* one entry.
DownloadAll(store) ==
    IF Len(store) > 1
    THEN Some(create_zip_download(FilesForZip(store)))
    ELSE None

(***************************************************************************)
(* The inputs: uploaded files.  A page image carries what reader.readtext  *)
(* does with it; a detection is (bbox, text).                              *)
(***************************************************************************)
Det(text) == <<"bbox", text>>

Image(results) == [raises |-> FALSE, results |-> results]

ErrorImage == [raises |-> TRUE, results |-> <<>>]

\* Ninety characters shared by two revisions of one document.
SharedOpening == [k \in 1..90 |-> "x"]

NameLower == <<"a", ".", "p", "d", "f">>
NameUpper == <<"a", ".", "P", "D", "F">>
NameOther == <<"b", ".", "p", "d", "f">>

Names == {NameLower, NameUpper, NameOther}

InvalidPdf == [valid |-> FALSE, pages |-> <<>>]

Pdf(pages) == [valid |-> TRUE, pages |-> pages]

File(name, pdf) == [name |-> name, pdf |-> pdf]

\* The page images of the single-file runs.
DetailImages ==
    {ErrorImage, Image(<<>>), Image(<<Det(<<"x">>)>>),
     Image(<<Det(<<"x">>), Det(<<"y">>)>>), Image(<<Det(<<" ">>)>>)}

DetailPdfs ==
    {InvalidPdf} \cup
    UNION {{Pdf(p) : p \in [1..n -> DetailImages]} : n \in 0..MaxPages}

SingleUploads == {<<File(n, p)>> : n \in Names, p \in DetailPdfs}

\* The one-page documents of the batch runs: two revisions of a document
\* that differ after their opening, an engine error, a control character.
RevisionA == Pdf(<<Image(<<Det(SharedOpening \o <<"a">>)>>)>>)
RevisionB == Pdf(<<Image(<<Det(SharedOpening \o <<"b">>)>>)>>)
UnreadablePdf == Pdf(<<ErrorImage>>)
ControlCharPdf == Pdf(<<Image(<<Det(<<"x", CTRL, "y">>)>>)>>)

SessionFiles ==
    {File(NameLower, RevisionA), File(NameLower, RevisionB),
     File(NameUpper, RevisionA), File(NameOther, RevisionA),
     File(NameLower, InvalidPdf), File(NameOther, InvalidPdf),
     File(NameOther, UnreadablePdf), File(NameOther, ControlCharPdf)}

SessionUploads == UNION {[1..n -> SessionFiles] : n \in 1..MaxFiles}

(***************************************************************************)
(* The state after construction: main, lines 404-406.                      *)
(***************************************************************************)
Init ==
    /\ processed_files = <<>>
    /\ uploaded_files = <<>>
    /\ lang = "en"
    /\ pc = "idle"
    /\ file_idx = 0
    /\ success_count = 0
    /\ total_files = 0
    /\ reported = <<>>
    /\ images = None
    /\ page_idx = 0
    /\ extracted_text = <<>>
    /\ progress_bar = <<>>
    /\ doc = None
    /\ widget_keys = {}
    /\ put_log = <<>>
    /\ store_at_start = <<>>
    /\ batches = 0
    /\ zip_download = None

uploaded_file == uploaded_files[file_idx + 1]

session_vars == <<processed_files, store_at_start, batches>>
run_vars == <<uploaded_files, lang, total_files, zip_download>>
loop_vars == <<file_idx, success_count, reported>>
file_vars == <<images, page_idx, extracted_text, progress_bar, doc>>

(***************************************************************************)
(* main: the Start button (lines 454-456) and the Clear button (448-451).  *)
(***************************************************************************)
StartProcessing(uploads, langs, runs) ==
    /\ pc = "idle"
    /\ batches < runs
    /\ \E fs \in uploads, l \in langs :
          /\ uploaded_files' = fs
          /\ lang' = l
          /\ total_files' = Len(fs)
    /\ success_count' = 0
    /\ file_idx' = 0
    /\ reported' = <<>>
    /\ widget_keys' = {}
    /\ put_log' = <<>>
    /\ store_at_start' = processed_files
    /\ batches' = batches + 1
    /\ zip_download' = None
    /\ pc' = "rasterize"
    /\ UNCHANGED <<processed_files, file_vars>>

ClearPreviousResults ==
    /\ pc = "idle"
    /\ processed_files # <<>>
    /\ processed_files' = <<>>
    /\ zip_download' = DownloadAll(processed_files')
    /\ UNCHANGED <<uploaded_files, lang, pc, file_idx, success_count,
                   total_files, reported, file_vars, widget_keys, put_log,
                   store_at_start, batches>>

(***************************************************************************)
(* main, lines 462-468: what the loop does with the value the file's       *)
(* processing returns, and the step to the next file or to the summary.    *)
(***************************************************************************)
\* A file that fails ends the loop.
Return_StopsOnFailure(ok) ==
    /\ success_count' = IF ok THEN success_count + 1 ELSE success_count
    /\ reported' = Append(reported, [name |-> uploaded_file.name, ok |-> ok])
    /\ file_idx' = file_idx + 1
    /\ pc' = IF ok /\ file_idx + 1 < total_files THEN "rasterize"
             ELSE "summary"
    /\ images' = None
    /\ page_idx' = 0
    /\ extracted_text' = <<>>
    /\ progress_bar' = <<>>
    /\ doc' = None

Return(ok) ==
    /\ success_count' = IF ok THEN success_count + 1 ELSE success_count
    /\ reported' = Append(reported, [name |-> uploaded_file.name, ok |-> ok])
    /\ file_idx' = file_idx + 1
    /\ pc' = IF file_idx + 1 < total_files THEN "rasterize" ELSE "summary"
    /\ images' = None
    /\ page_idx' = 0
    /\ extracted_text' = <<>>
    /\ progress_bar' = <<>>
    /\ doc' = None

(***************************************************************************)
(* process_single_pdf_with_state, lines 341-350, with pdf_to_images.       *)
(***************************************************************************)
\* A document that cannot be opened gives an empty page list; with it the
\* file's previous output is dropped.
PdfToImages_DropsOutput ==
    /\ pc = "rasterize"
    /\ IF uploaded_file.pdf.valid
       THEN /\ images' = Some(uploaded_file.pdf.pages)
            /\ pc' = "ocr_begin"
            /\ UNCHANGED <<session_vars, run_vars, loop_vars, page_idx,
                           extracted_text, progress_bar, doc, widget_keys,
                           put_log>>
       ELSE /\ Return(FALSE)
            /\ processed_files' =
                  SelectSeq(processed_files,
                            LAMBDA e : e.key # DocxFilename(uploaded_file.name))
            /\ UNCHANGED <<store_at_start, batches, run_vars, widget_keys,
                           put_log>>

\* fitz.open or a page's rendering raises: None, and no partial page list.
pdf_to_images(pdf_bytes) ==
    IF pdf_bytes.valid THEN Some(pdf_bytes.pages) ELSE None

PdfToImages ==
    /\ pc = "rasterize"
    /\ LET imgs == pdf_to_images(uploaded_file.pdf)
       IN  IF imgs.is_none
           THEN /\ Return(FALSE)
                /\ UNCHANGED <<session_vars, run_vars, widget_keys, put_log>>
           ELSE /\ images' = imgs
                /\ pc' = "ocr_begin"
                /\ UNCHANGED <<session_vars, run_vars, loop_vars, page_idx,
                               extracted_text, progress_bar, doc, widget_keys,
                               put_log>>

(***************************************************************************)
(* perform_ocr_easyocr, lines 167-208, one step per statement group.       *)
(***************************************************************************)
\* Lines 169-172: extracted_text = "", st.progress(0).
OcrBegin ==
    /\ pc = "ocr_begin"
    /\ extracted_text' = <<>>
    /\ progress_bar' = <<[num |-> 0, den |-> 1]>>
    /\ page_idx' = 0
    /\ pc' = IF Len(images.value) > 0 THEN "ocr_progress" ELSE "ocr_end"
    /\ UNCHANGED <<session_vars, run_vars, loop_vars, images, doc, widget_keys,
                   put_log>>

\* A bar that counts the pages finished before this one.
ProgressValue_PagesDone(i, n) == [num |-> i, den |-> n]

\* Line 177: progress = (i + 1) / len(images), as a fraction.
ProgressValue(i, n) == [num |-> i + 1, den |-> n]

\* Lines 176-183: the progress update that opens each iteration.
OcrProgress ==
    /\ pc = "ocr_progress"
    /\ progress_bar' =
          Append(progress_bar, ProgressValue(page_idx, Len(images.value)))
    /\ pc' = "ocr_read"
    /\ UNCHANGED <<session_vars, run_vars, loop_vars, images, page_idx,
                   extracted_text, doc, widget_keys, put_log>>

\* A page without text is left out of the text.
OcrPageDone_SkipsBlank(text, l, i, results) ==
    IF Strip(JoinDetections(results)) = <<>> THEN text
    ELSE text \o PageBlock(l, i, results)

\* Lines 189-199: the reader returned; the page's block is appended.
OcrPageDone(text, l, i, results) == text \o PageBlock(l, i, results)

\* A page that raised is kept as an entry without text.
OcrPageError_KeepsEntry(text, l, i) == text \o PageBlock(l, i, <<>>)

\* Lines 201-203: the reader raised; warning and continue.
OcrPageError(text, l, i) == text

\* Lines 185-203: the rest of the iteration, and the loop's next step.
OcrReadText ==
    /\ pc = "ocr_read"
    /\ LET image == images.value[page_idx + 1]
       IN  extracted_text' =
              IF image.raises
              THEN OcrPageError(extracted_text, lang, page_idx)
              ELSE OcrPageDone(extracted_text, lang, page_idx, image.results)
    /\ page_idx' = page_idx + 1
    /\ pc' = IF page_idx + 1 < Len(images.value) THEN "ocr_progress"
             ELSE "ocr_end"
    /\ UNCHANGED <<session_vars, run_vars, loop_vars, images, progress_bar,
                   doc, widget_keys, put_log>>

\* Line 356: "if not extracted_text.strip()".
NoTextExtracted(text) == Strip(text) = <<>>

\* Lines 205-208 and 356-358: the bar is emptied, the text returned, and a
\* file without text is given up.
OcrEnd ==
    /\ pc = "ocr_end"
    /\ IF NoTextExtracted(extracted_text)
       THEN /\ Return(FALSE)
            /\ UNCHANGED <<session_vars, run_vars, widget_keys, put_log>>
       ELSE /\ pc' = "create_docx"
            /\ progress_bar' = <<>>
            /\ UNCHANGED <<session_vars, run_vars, loop_vars, images, page_idx,
                           extracted_text, doc, widget_keys, put_log>>

(***************************************************************************)
(* process_single_pdf_with_state, lines 360-397.                           *)
(***************************************************************************)
\* Lines 360-367.
CreateDocx ==
    /\ pc = "create_docx"
    /\ LET d == create_docx(extracted_text, Stem(uploaded_file.name), lang)
       IN  IF d.is_none
           THEN /\ Return(FALSE)
                /\ UNCHANGED <<session_vars, run_vars, widget_keys, put_log>>
           ELSE /\ doc' = d
                /\ pc' = "store"
                /\ UNCHANGED <<session_vars, run_vars, loop_vars, images,
                               page_idx, extracted_text, progress_bar,
                               widget_keys, put_log>>

\* Lines 378-382: the entry written under docx_filename.
StoreEntry(d, text, name) ==
    [doc_bytes |-> SaveDocx(d), extracted_text |-> text,
     original_name |-> name]

\* Lines 369-382.
StoreResult ==
    /\ pc = "store"
    /\ processed_files' =
          DictSet(processed_files, DocxFilename(uploaded_file.name),
                  StoreEntry(doc.value, extracted_text, uploaded_file.name))
    /\ put_log' = Append(put_log, file_idx + 1)
    /\ pc' = "preview"
    /\ UNCHANGED <<store_at_start, batches, run_vars, loop_vars, file_vars,
                   widget_keys>>

\* Streamlit refuses an element key already registered in this script run
\* (StreamlitDuplicateElementKey, an Exception).
PreviewRaises(keys, key) == key \in keys

\* Lines 384-397: the preview's text_area; what it raises is caught by the
\* handler of line 395, which returns False.
ShowPreview ==
    /\ pc = "preview"
    /\ LET key == PreviewKey(uploaded_file.name, extracted_text)
       IN  IF PreviewRaises(widget_keys, key)
           THEN /\ Return(FALSE)
                /\ UNCHANGED widget_keys
           ELSE /\ Return(TRUE)
                /\ widget_keys' = widget_keys \cup {key}
    /\ UNCHANGED <<session_vars, run_vars, put_log>>

(***************************************************************************)
(* main, lines 470-487: the summary and the download section; the script   *)
(* run ends.                                                               *)
(***************************************************************************)
Summary ==
    /\ pc = "summary"
    /\ pc' = "idle"
    /\ uploaded_files' = <<>>
    /\ total_files' = 0
    /\ success_count' = 0
    /\ file_idx' = 0
    /\ reported' = <<>>
    /\ widget_keys' = {}
    /\ put_log' = <<>>
    /\ store_at_start' = <<>>
    /\ zip_download' = DownloadAll(processed_files)
    /\ UNCHANGED <<processed_files, batches, lang, file_vars>>

\* A script run in which neither button is clicked (any other interaction,
\* such as a click on a download button): of the steps modelled it executes
\* the download section, lines 478-487.
Rerun ==
    /\ pc = "idle"
    /\ zip_download' = DownloadAll(processed_files)
    /\ UNCHANGED <<processed_files, uploaded_files, lang, pc, file_idx,
                   success_count, total_files, reported, file_vars,
                   widget_keys, put_log, store_at_start, batches>>

\* The statements of one script run, in program order.
ScriptSteps ==
    \/ PdfToImages
    \/ OcrBegin
    \/ OcrProgress
    \/ OcrReadText
    \/ OcrEnd
    \/ CreateDocx
    \/ StoreResult
    \/ ShowPreview
    \/ Summary

\* A session: runs of up to MaxFiles one-page files, in the language the
\* sidebar starts with (index=0, line 415).
Next ==
    \/ StartProcessing(SessionUploads, {"en"}, MaxBatches)
    \/ ClearPreviousResults
    \/ Rerun
    \/ ScriptSteps

Spec == Init /\ [][Next]_vars

\* The script is sequential and every call it makes returns: a run that has
\* started takes its next step.  This is weak fairness of ScriptSteps, with
\* its enabling condition written out: a step of the script is enabled
\* exactly while a run is under way, pc # "idle".
FairSpec == Spec /\ ([]<>(pc = "idle") \/ []<><<ScriptSteps>>_vars)

\* One run of one file of up to MaxPages pages, in either language.
NextFile ==
    \/ StartProcessing(SingleUploads, Langs, 1)
    \/ ClearPreviousResults
    \/ Rerun
    \/ ScriptSteps

SpecFile == Init /\ [][NextFile]_vars

(***************************************************************************)
(* Vocabulary of the properties.                                           *)
(***************************************************************************)
\* The pages of a file, and what the file's OCR is expected to return: the
\* blocks of the pages whose recognition returned, in page order.
PageText(image) == Strip(JoinDetections(image.results))

Recognized(pages) == {k \in 1..Len(pages) : ~pages[k].raises}

RECURSIVE TextOfPages(_, _, _)
TextOfPages(pages, n, l) ==
    IF n = 0 THEN <<>>
    ELSE TextOfPages(pages, n - 1, l)
             \o (IF pages[n].raises THEN <<>>
                 ELSE PageBlock(l, n - 1, pages[n].results))

\* The text with every page kept: a page that raised as an entry without text.
RECURSIVE TextOfAllPages(_, _, _)
TextOfAllPages(pages, n, l) ==
    IF n = 0 THEN <<>>
    ELSE TextOfAllPages(pages, n - 1, l)
             \o PageBlock(l, n - 1,
                          IF pages[n].raises THEN <<>> ELSE pages[n].results)

InOcr == pc \in {"ocr_progress", "ocr_read", "ocr_end"}

Headings(d) == {j \in 1..Len(d) : d[j].style = "Heading 1"}

\* "--- Page k ---": the label of page k alone.
PageLabel(l, k) == Strip(PageSeparatorLine(l, k - 1))

Wrote(k) == \E j \in 1..Len(put_log) : put_log[j] = k

\* Every page of the file is recognized without a detection.
NothingDetected(file) ==
    /\ file.pdf.valid
    /\ Len(file.pdf.pages) >= 1
    /\ \A k \in 1..Len(file.pdf.pages) :
          ~file.pdf.pages[k].raises /\ file.pdf.pages[k].results = <<>>

(***************************************************************************)
(* C1.  A file on whose every page the OCR detects nothing (no page        *)
(* raising) is reported FAILED and never written to the store.             *)
(* The code stores it: the page separators make the text non-empty.        *)
(***************************************************************************)
\* C1, as claimed: no file without a detection reaches the store write or
\* is reported a success.
C1_NothingDetectedFails ==
    /\ pc = "store" => ~NothingDetected(uploaded_file)
    /\ \A k \in 1..Len(reported) :
          NothingDetected(uploaded_files[k]) => ~reported[k].ok /\ ~Wrote(k)

(***************************************************************************)
(* C3.  Claimed: the number of level-1 headings of the assembled document  *)
(* is the number of pages with non-empty page text.                        *)
(* Holds: it is the number of pages whose recognition returned; a page     *)
(* without text still gets its heading.                                    *)
(***************************************************************************)
\* C3, as claimed: as many level-1 headings as pages with page text.
C3_HeadingPerNonEmptyPage ==
    pc = "store" =>
        Cardinality(Headings(doc.value)) =
            Cardinality({k \in Recognized(images.value) :
                            PageText(images.value[k]) # <<>>})

\* C3, as amended: as many level-1 headings as pages whose recognition
\* returned, each page's heading starting with the page's label.
C3_HeadingPerRecognizedPage ==
    pc = "store" =>
        /\ Cardinality(Headings(doc.value)) =
              Cardinality(Recognized(images.value))
        /\ \A k \in Recognized(images.value) :
              \E j \in Headings(doc.value) :
                  StartsWith(doc.value[j].text, PageLabel(lang, k))

\* Three pages, text on the first and the third, none on the second.
C3_Witness ==
    /\ pc = "store"
    /\ Len(images.value) = 3
    /\ Recognized(images.value) = {1, 2, 3}
    /\ PageText(images.value[1]) # <<>>
    /\ PageText(images.value[2]) = <<>>
    /\ PageText(images.value[3]) # <<>>
    /\ Cardinality(Headings(doc.value)) = 3

(***************************************************************************)
(* C8.  Claimed: the extracted text has one entry for each page 1..N, a    *)
(* page whose recognition raised being kept with empty text.               *)
(* Holds: it has one entry for each page whose recognition returned, in    *)
(* page order; a page that raised has no entry; the loop visits every page.*)
(***************************************************************************)
\* C8, as claimed: the text returned has an entry for each page 1..N.
C8_EntryPerPage ==
    pc = "ocr_end" =>
        extracted_text = TextOfAllPages(images.value, Len(images.value), lang)

\* C8, as amended: after page_idx iterations the text holds the entries of
\* the pages among them whose recognition returned, in page order, and the
\* loop ends only after all N iterations.
C8_EntryPerRecognizedPage ==
    InOcr =>
        /\ extracted_text = TextOfPages(images.value, page_idx, lang)
        /\ page_idx <= Len(images.value)
        /\ pc = "ocr_end" => page_idx = Len(images.value)

\* A page raised, and a later page was recognized with text.
C8_Witness ==
    /\ pc = "ocr_end"
    /\ \E j, k \in 1..Len(images.value) :
          /\ j < k
          /\ images.value[j].raises
          /\ ~images.value[k].raises
          /\ PageText(images.value[k]) # <<>>
    /\ extracted_text # <<>>

(***************************************************************************)
(* C9.  Claimed: each progress value is (pages already recognized) / N     *)
(* when it is emitted, and the value 1 comes only once all pages are done. *)
(* Holds: the value k/N is emitted when page k is about to be recognized,  *)
(* after pages 1..k-1; the values increase strictly; the value 1 is        *)
(* emitted before the last page is recognized.                             *)
(***************************************************************************)
\* a/b < c/d for positive denominators.
Less(x, y) == x.num * y.den < y.num * x.den

SameValue(x, y) == x.num * y.den = y.num * x.den

\* C9, as claimed: the value just emitted is (pages done) / N, and a value 1
\* is on the bar only when all pages are done.  page_idx pages have gone
\* through the loop body; in "ocr_read" the value of the next page has just
\* been emitted.
C9_ProgressIsPagesDone ==
    /\ pc = "ocr_read" =>
          SameValue(progress_bar[Len(progress_bar)],
                    [num |-> page_idx, den |-> Len(images.value)])
    /\ InOcr =>
          \A j \in 1..Len(progress_bar) :
              progress_bar[j].num = progress_bar[j].den
                  => page_idx = Len(images.value)

\* C9, as amended: the bar holds 0 and then k/N for each page k whose
\* iteration has started, in strictly increasing order.
C9_ProgressIsPageStarted ==
    InOcr =>
        LET n == Len(images.value)
            emitted == IF pc = "ocr_read" THEN page_idx + 1 ELSE page_idx
        IN  /\ Len(progress_bar) = 1 + emitted
            /\ progress_bar[1].num = 0
            /\ \A k \in 1..emitted :
                  progress_bar[k + 1] = [num |-> k, den |-> n]
            /\ \A j \in 1..(Len(progress_bar) - 1) :
                  Less(progress_bar[j], progress_bar[j + 1])
            /\ pc = "ocr_end" /\ n > 0 =>
                  progress_bar[Len(progress_bar)] = [num |-> n, den |-> n]

\* The value 1 is on the bar while the last of several pages is still to be
\* recognized.
C9_Witness ==
    /\ pc = "ocr_read"
    /\ Len(images.value) >= 2
    /\ page_idx = Len(images.value) - 1
    /\ progress_bar[Len(progress_bar)].num = Len(images.value)
    /\ progress_bar[Len(progress_bar)].den = Len(images.value)

(***************************************************************************)
(* C10.  The document starts with exactly one title heading; each page     *)
(* with text has a heading that carries the page's label alone, followed   *)
(* at once by one body paragraph with the page's text; no heading holds    *)
(* page text.                                                              *)
(* The code puts label and text into the heading: one "\n" separates       *)
(* them, and the text is split at "\n\n".                                  *)
(***************************************************************************)
\* C10, as claimed.
C10_HeadingThenParagraph ==
    pc = "store" =>
        LET d == doc.value
            pages == images.value
        IN  /\ d[1].style = "Title"
            /\ \A j \in 2..Len(d) : d[j].style # "Title"
            /\ \A k \in Recognized(pages) :
                  PageText(pages[k]) # <<>> =>
                      \E j \in 1..(Len(d) - 1) :
                          /\ d[j].style = "Heading 1"
                          /\ d[j].text = PageLabel(lang, k)
                          /\ d[j + 1].style = "Normal"
                          /\ d[j + 1].text = PageText(pages[k])
            /\ \A j \in Headings(d) :
                  \E k \in 1..Len(pages) : d[j].text = PageLabel(lang, k)

(***************************************************************************)
(* The outcome of a run, computed file by file from the uploads alone.     *)
(***************************************************************************)
OcrText(file, l) == TextOfPages(file.pdf.pages, Len(file.pdf.pages), l)

\* Whether the file reaches the store write.
ReachesStore(file, l) ==
    /\ file.pdf.valid
    /\ ~NoTextExtracted(OcrText(file, l))
    /\ ~create_docx(OcrText(file, l), Stem(file.name), l).is_none

EntryOf(file, l) ==
    StoreEntry(create_docx(OcrText(file, l), Stem(file.name), l).value,
               OcrText(file, l), file.name)

\* The store, the registered keys and the reports after the first n files.
RECURSIVE RunOf(_, _, _, _)
RunOf(files, l, n, store) ==
    IF n = 0 THEN [store |-> store, keys |-> {}, reported |-> <<>>]
    ELSE LET prev == RunOf(files, l, n - 1, store)
             f == files[n]
             key == PreviewKey(f.name, OcrText(f, l))
         IN  IF ~ReachesStore(f, l)
             THEN [prev EXCEPT !.reported =
                                  Append(@, [name |-> f.name, ok |-> FALSE])]
             ELSE [store |-> DictSet(prev.store, DocxFilename(f.name),
                                     EntryOf(f, l)),
                   keys |-> prev.keys \cup {key},
                   reported |-> Append(prev.reported,
                                       [name |-> f.name,
                                        ok |-> key \notin prev.keys])]

Renderable(file) == file.pdf.valid

\* The reports of the files that could be rendered.
RECURSIVE RenderableReports(_)
RenderableReports(n) ==
    IF n = 0 THEN <<>>
    ELSE IF Renderable(uploaded_files[n])
         THEN Append(RenderableReports(n - 1), reported[n])
         ELSE RenderableReports(n - 1)

(***************************************************************************)
(* C2.  A file that cannot be rendered is reported FAILED, the store is    *)
(* the same after it as before it, and the other files of the run end as   *)
(* they would if the file were not part of the upload.                     *)
(***************************************************************************)
\* C2: the unrenderable files are reported FAILED without a store write, and
\* the run ends as the run of the other files alone does.
C2_State ==
    /\ \A k \in 1..Len(reported) :
          ~Renderable(uploaded_files[k]) => ~reported[k].ok /\ ~Wrote(k)
    /\ pc = "summary" =>
          LET others == SelectSeq(uploaded_files, Renderable)
              alone == RunOf(others, lang, Len(others), store_at_start)
          IN  /\ processed_files = alone.store
              /\ RenderableReports(Len(reported)) = alone.reported

\* C2: the step that gives up an unrenderable file leaves the store as it is.
C2_Step ==
    pc = "rasterize" /\ ~Renderable(uploaded_file) =>
        /\ processed_files' = processed_files
        /\ widget_keys' = widget_keys
        /\ reported' = Append(reported,
                              [name |-> uploaded_file.name, ok |-> FALSE])

\* C2: both, in every run.
C2_RenderFailureIsolated == [](C2_State) /\ [][C2_Step]_vars

\* The store holds an output; a file of the same key cannot be rendered and
\* the file after it is stored.
C2_Witness ==
    /\ pc = "summary"
    /\ total_files = 2
    /\ ~Renderable(uploaded_files[1])
    /\ DocxFilename(uploaded_files[1].name) \in DictKeys(store_at_start)
    /\ reported[2].ok
    /\ processed_files # store_at_start

(***************************************************************************)
(* C4.  A file is counted as a success if and only if it wrote its entry   *)
(* into the store: once the entry is written the file is not reported      *)
(* FAILED.                                                                 *)
(* The preview that follows the write raises on a repeated element key,    *)
(* and the file is then reported FAILED with its entry in the store.       *)
(***************************************************************************)
\* C4, as claimed: reported a success if and only if the store was written.
C4_StoredIsTerminal ==
    \A k \in 1..Len(reported) : reported[k].ok <=> Wrote(k)

(***************************************************************************)
(* C5.  The loop goes through all N files in upload order whatever fails,  *)
(* reports each file once as a success or as a failure, ends, and counts   *)
(* in success_count the files reported a success, out of total_files = N.  *)
(***************************************************************************)
Successes == {k \in 1..Len(reported) : reported[k].ok}

\* C5: one report per file processed, in upload order, counted right; at the
\* summary every file has its report.
C5_State ==
    /\ Len(reported) = file_idx
    /\ success_count = Cardinality(Successes)
    /\ \A k \in 1..Len(reported) : reported[k].name = uploaded_files[k].name
    /\ pc \notin {"idle", "summary"} => file_idx < total_files
    /\ pc = "summary" =>
          /\ total_files = Len(uploaded_files)
          /\ Len(reported) = total_files

\* C5: in every run, and every run that starts reaches its summary.
C5_BatchCompletes == [](C5_State) /\ ((pc # "idle") ~> (pc = "summary"))

\* The first file failed and the second was processed and stored.
C5_Witness ==
    /\ pc = "summary"
    /\ total_files = 2
    /\ ~reported[1].ok
    /\ reported[2].ok
    /\ success_count = 1

(***************************************************************************)
(* C6.  Under each key the store holds one entry, that of the last file of *)
(* that key that was STORED; a file that FAILS leaves the entry of its key *)
(* as it was.                                                              *)
(* A file that fails in the preview has replaced the entry already.        *)
(***************************************************************************)
StoredUnder(key) ==
    {k \in Successes : DocxFilename(uploaded_files[k].name) = key}

Latest(S) == CHOOSE k \in S : \A j \in S : j <= k

EntriesUnder(d, key) == {j \in 1..Len(d) : d[j].key = key}

\* C6, as claimed, at the file boundaries of a run.
C6_LastStoredWins ==
    pc \in {"rasterize", "summary"} =>
        \A key \in {DocxFilename(n) : n \in Names} :
            /\ Cardinality(EntriesUnder(processed_files, key)) <= 1
            /\ IF StoredUnder(key) # {}
               THEN /\ key \in DictKeys(processed_files)
                    /\ processed_files[DictGet(processed_files, key)].value =
                          EntryOf(uploaded_files[Latest(StoredUnder(key))],
                                  lang)
               ELSE /\ key \in DictKeys(processed_files)
                          <=> key \in DictKeys(store_at_start)
                    /\ key \in DictKeys(store_at_start) =>
                          processed_files[DictGet(processed_files, key)].value
                              = store_at_start[DictGet(store_at_start,
                                                       key)].value

(***************************************************************************)
(* C7.  Claimed: after a run in which some files fail rendering and the    *)
(* others succeed, the store holds exactly success_count entries.          *)
(* Holds: success_count is the number of files that succeed, and the keys  *)
(* of the store are those it had before the run and those of the files     *)
(* that succeed; it holds success_count entries when it was empty before   *)
(* the run and the files that succeed have different keys.                 *)
(***************************************************************************)
RenderFailuresOnly ==
    /\ pc = "summary"
    /\ \E k \in 1..total_files : ~Renderable(uploaded_files[k])
    /\ \E k \in 1..total_files : reported[k].ok
    /\ \A k \in 1..total_files : Renderable(uploaded_files[k]) <=> reported[k].ok

SuccessKeys == {DocxFilename(uploaded_files[k].name) : k \in Successes}

\* C7, as claimed.
C7_StoreSizeIsSuccessCount ==
    RenderFailuresOnly => Len(processed_files) = success_count

\* C7, as amended.
C7_StoreKeysAreSuccessKeys ==
    RenderFailuresOnly =>
        /\ success_count =
              Cardinality({k \in 1..total_files : Renderable(uploaded_files[k])})
        /\ DictKeys(processed_files) = DictKeys(store_at_start) \cup SuccessKeys
        /\ Len(processed_files) = Cardinality(DictKeys(processed_files))
        /\ (store_at_start = <<>>
              /\ Cardinality(SuccessKeys) = Cardinality(Successes))
             => Len(processed_files) = success_count

\* A first run of three files: one fails rendering, two are stored.
C7_Witness ==
    /\ RenderFailuresOnly
    /\ store_at_start = <<>>
    /\ total_files = MaxFiles
    /\ success_count = MaxFiles - 1
    /\ Len(processed_files) = success_count

(***************************************************************************)
(* The archive of all results.                                             *)
(***************************************************************************)
\* Reading a member back: the bytes that were compressed.
Inflate(data) == data.deflated

\* Unpacking an archive: its (filename, bytes) pairs, in the archive's order.
Unpack(archive) ==
    [k \in 1..Len(archive.members) |->
        <<archive.members[k].filename, Inflate(archive.members[k].data)>>]

\* The (filename, doc bytes) pairs of the store, in its iteration order.
StorePairs(store) ==
    [k \in 1..Len(store) |-> <<store[k].key, store[k].value.doc_bytes>>]

\* The archive's button exists, i.e. this script run has built the archive.
ArchiveBuilt == ~zip_download.is_none

\* C11 (state part): the archive exists exactly at the end of a script run
\* whose store holds more than one entry; unpacked it gives the store's
\* (filename, doc bytes) pairs of that moment, in the store's iteration
\* order, one member per store key, none missing, duplicated or stale, and
\* the button counts the store's entries.
C11_State ==
    /\ ArchiveBuilt <=> (pc = "idle" /\ Len(processed_files) > 1)
    /\ ArchiveBuilt =>
          /\ Unpack(zip_download.value) = StorePairs(processed_files)
          /\ zip_download.value.count = Len(processed_files)
          /\ Len(zip_download.value.members)
                = Cardinality(DictKeys(processed_files))
          /\ \A j, k \in 1..Len(zip_download.value.members) :
                zip_download.value.members[j].filename
                    = zip_download.value.members[k].filename => j = k

\* C11 (step part): a step that builds the archive leaves the store as it is.
C11_Step == ArchiveBuilt' => processed_files' = processed_files

\* C11: whenever the archive is built, after any sequence of batches,
\* overwrites and clears, it is built from the Result Store's content at
\* that moment: unpacking it yields exactly the store's (filename, doc bytes)
\* pairs, one member per store key, in store iteration order; and building
\* it leaves the store unchanged.
C11_ArchiveIsStoreSnapshot == [](C11_State) /\ [][C11_Step]_vars

\* The archive is built at the end of the session's last batch, from a store
\* of two entries, the first one written for a.PDF; unpacked, its first
\* member is that file's document.
C11_Witness ==
    /\ ArchiveBuilt
    /\ pc = "idle"
    /\ batches = MaxBatches
    /\ Len(processed_files) = 2
    /\ processed_files[1].value.original_name = NameUpper
    /\ processed_files[2].key = DocxFilename(NameOther)
    /\ Unpack(zip_download.value)[1][2].body
          = create_docx(OcrText(File(NameUpper, RevisionA), lang),
                        Stem(NameUpper), lang).value

====
